---- MODULE Spec2Model ----
(***************************************************************************)
(* CalorieSmart AI (src/main.py): a Streamlit page that takes an uploaded  *)
(* food image, wraps its bytes with the declared MIME type, sends them     *)
(* with the user's instructions and a fixed prompt to a remote Gemini      *)
(* model, and displays the text that comes back.                           *)
(*                                                                         *)
(* The module models one Python process executing main.py: the module      *)
(* level code (credential check), then either main() when the file is run  *)
(* as a script, or direct calls of its functions when it is imported.      *)
(***************************************************************************)
EXTENDS Integers, Sequences, FiniteSets

(* ---------------------------- bounds ----------------------------------- *)

\* Longest byte buffer of an upload.
MaxLen == 2
\* Longest payload list handed to get_gemini_response by an importer.
MaxPayload == 2

(* ---------------------------- values ----------------------------------- *)

Byte == {0, 1}

RECURSIVE SeqsUpTo(_, _)
SeqsUpTo(S, n) ==
    IF n = 0 THEN {<<>>}
    ELSE LET shorter == SeqsUpTo(S, n - 1)
         IN  shorter \cup {Append(s, x) : s \in {t \in shorter : Len(t) = n - 1}, x \in S}

ByteStrings == SeqsUpTo(Byte, MaxLen)

\* The MIME types the uploader declares for the extensions jpg, jpeg, png.
SUPPORTED_IMAGE_TYPES == {"image/jpeg", "image/png"}

NUTRITION_PROMPT == "As a professional nutritionist, analyze the food items in the image"

FALLBACK == "Sorry, there was an error analyzing the image. Please try again."

\* Python's None where a string or an exception class is expected.
NoExc == "NoExc"
Absent == "<unset>"

\* Python's None / an upload handle; both are records so that they compare.
None == [kind |-> "None"]

\* An UploadedFile: a BytesIO with a declared type.  `readable` is whether
\* getvalue() succeeds, `decodable` whether PIL can open the image, `pos` the
\* stream position.
UploadedFile(type, data, readable, decodable, pos) ==
    [kind |-> "UploadedFile", type |-> type, data |-> data,
     readable |-> readable, decodable |-> decodable, pos |-> pos]

\* A Python list of payload entries.
List(items) == [kind |-> "list", items |-> items]

Entry(type, data) == [mime_type |-> type, data |-> data]

(* ------------------------ exception classes ---------------------------- *)

\* Direct base class of each exception class (EnvironmentError is OSError).
Base(c) ==
    CASE c = "Exception" -> "BaseException"
      [] c = "OSError" -> "Exception"
      [] c = "FileNotFoundError" -> "OSError"
      [] c = "ValueError" -> "Exception"
      [] c = "LookupError" -> "Exception"
      [] c = "IndexError" -> "LookupError"
      [] c = "TypeError" -> "Exception"
      [] c = "AttributeError" -> "Exception"
      [] c = "UnidentifiedImageError" -> "OSError"
      [] c = "GoogleAPIError" -> "Exception"
      [] OTHER -> "object"

\* issubclass(c, d)
RECURSIVE IsSubclass(_, _)
IsSubclass(c, d) ==
    IF c = d THEN TRUE
    ELSE IF c = "object" THEN FALSE
    ELSE IsSubclass(Base(c), d)

\* What the remote library raises: API errors, and ValueError when the text
\* of a blocked response is read.
RemoteErrors == {"GoogleAPIError", "ValueError"}

ResponseTexts == {"Total Calories: 520 kcal", ""}

\* What the remote side does on one use of the model: the stage that raises
\* (constructing the model, generate_content, reading response.text) with the
\* exception, or success with the generated text.
RemoteOutcomes ==
    {[stage |-> s, exc |-> e, reply |-> ""] :
        s \in {"construct", "generate", "text"}, e \in RemoteErrors}
    \cup {[stage |-> "ok", exc |-> NoExc, reply |-> t] : t \in ResponseTexts}

(* ----------------------- results of a call ----------------------------- *)

\* What one call of a function did: returned `value` or raised `exc`, the
\* messages it put on the page with st.error, and the request lists it
\* passed to generate_content.
Return(value, errors, remote) ==
    [kind |-> "return", value |-> value, exc |-> NoExc,
     errors |-> errors, remote |-> remote]

Raise(exc, errors, remote) ==
    [kind |-> "raise", value |-> None, exc |-> exc,
     errors |-> errors, remote |-> remote]

\* One element shown on the page.
Shown(kind, msg, arg) == [kind |-> kind, msg |-> msg, arg |-> arg]

\* Python truth value of None, of an upload handle (an object without
\* __bool__ or __len__) and of a list.
Truthy(v) ==
    CASE v.kind = "None" -> FALSE
      [] v.kind = "UploadedFile" -> TRUE
      [] v.kind = "list" -> Len(v.items) > 0

\* Python truth value of a string.
TruthyStr(s) == s # Absent /\ s # ""

(* --------------------- process_uploaded_image -------------------------- *)

\* A faulty variant of getvalue: read(), which starts at the stream position.
read(f) == SubSeq(f.data, f.pos + 1, Len(f.data))

\* BytesIO.getvalue(): the whole buffer, whatever the stream position.
getvalue(f) == f.data

\* A faulty variant of IngestCatches: the handler lets the exception through.
IngestCatchesNothing(exc) == FALSE

\* `except Exception` of process_uploaded_image.
IngestCatches(exc) == IsSubclass(exc, "Exception")

\* The try body of process_uploaded_image.
IngestBody(f) ==
    IF f.kind # "UploadedFile" THEN Raise("AttributeError", <<>>, <<>>)
    ELSE IF ~f.readable THEN Raise("ValueError", <<>>, <<>>)
    ELSE Return(List(<<Entry(f.type, getvalue(f))>>), <<>>, <<>>)

\* A faulty variant of process_uploaded_image: the None check is missing.
process_uploaded_image_unguarded(uploaded_file) ==
    LET body == IngestBody(uploaded_file)
    IN  IF body.kind = "raise" /\ IngestCatches(body.exc)
        THEN Return(None, <<Shown("error", "Error processing image", body.exc)>>, <<>>)
        ELSE body

process_uploaded_image(uploaded_file) ==
    IF uploaded_file = None
    THEN Raise("FileNotFoundError", <<>>, <<>>)
    ELSE LET body == IngestBody(uploaded_file)
         IN  IF body.kind = "raise" /\ IngestCatches(body.exc)
             THEN Return(None, <<Shown("error", "Error processing image", body.exc)>>, <<>>)
             ELSE body

(* ----------------------- get_gemini_response --------------------------- *)

\* A faulty variant of RequestList: the last payload entry instead of the first.
RequestListLast(user_input, image_data, prompt) ==
    <<user_input, image_data.items[Len(image_data.items)], prompt>>

\* The argument of generate_content.
RequestList(user_input, image_data, prompt) ==
    <<user_input, image_data.items[1], prompt>>

\* A faulty variant of ClientCatches: only ValueError is handled.
ClientCatchesValueError(exc) == IsSubclass(exc, "ValueError")

\* `except Exception` of get_gemini_response.
ClientCatches(exc) == IsSubclass(exc, "Exception")

\* The try body of get_gemini_response under remote outcome o.
ClientBody(user_input, image_data, prompt, o) ==
    IF o.stage = "construct" THEN Raise(o.exc, <<>>, <<>>)
    ELSE IF image_data.kind # "list" THEN Raise("TypeError", <<>>, <<>>)
    ELSE IF Len(image_data.items) = 0 THEN Raise("IndexError", <<>>, <<>>)
    ELSE LET request == RequestList(user_input, image_data, prompt)
         IN  IF o.stage \in {"generate", "text"}
             THEN Raise(o.exc, <<>>, <<request>>)
             ELSE Return(o.reply, <<>>, <<request>>)

\* A faulty variant of get_gemini_response: a failed attempt is made once more.
get_gemini_response_retry(user_input, image_data, prompt, o) ==
    LET body == ClientBody(user_input, image_data, prompt, o)
    IN  IF body.kind = "raise" /\ ClientCatches(body.exc)
        THEN Return(FALLBACK,
                    <<Shown("error", "Error generating response", body.exc)>>,
                    body.remote \o body.remote)
        ELSE body

get_gemini_response(user_input, image_data, prompt, o) ==
    LET body == ClientBody(user_input, image_data, prompt, o)
    IN  IF body.kind = "raise" /\ ClientCatches(body.exc)
        THEN Return(FALLBACK,
                    <<Shown("error", "Error generating response", body.exc)>>,
                    body.remote)
        ELSE body

(* ------------------------------ state ---------------------------------- *)

VARIABLES
    environ,         \* os.environ["GOOGLE_API_KEY"], or Absent
    dotenv,          \* the GOOGLE_API_KEY entry of the .env file, or Absent
    name,            \* __name__: "__main__" when run as a script
    session,         \* what the user has set on the page: upload, text, click
    pc,              \* where the process is
    GOOGLE_API_KEY,  \* the module global
    api_key,         \* the key genai has been configured with
    page,            \* whether setup_page has rendered the page
    uploaded_file,   \* local of main
    user_input,      \* local of main
    submit,          \* local of main
    image_data,      \* local of main
    response,        \* local of main
    display,         \* what main has shown below the static page, in order
    invoked,         \* the most recent call of one of the two functions
    ingestCalls,     \* calls of process_uploaded_image made by main
    clientCalls,     \* calls of get_gemini_response made by main
    genCalls         \* calls of generate_content made on behalf of main

vars ==
    <<environ, dotenv, name, session, pc, GOOGLE_API_KEY, api_key, page,
      uploaded_file, user_input, submit, image_data, response, display,
      invoked, ingestCalls, clientCalls, genCalls>>

locals == <<uploaded_file, user_input, submit, image_data, response>>
config == <<environ, dotenv, name, session, GOOGLE_API_KEY, api_key>>
counters == <<ingestCalls, clientCalls, genCalls>>

(* ------------------------------ inputs --------------------------------- *)

EnvValues == {Absent, "", "key-from-environment"}
DotenvValues == {Absent, "", "key-from-dotenv"}

Instructions == {"", "focus on protein"}

\* The handles the uploader can hand to main: position 0, and an image that
\* PIL can open has at least one byte.  Whether the bytes can be retrieved at
\* ingestion is the upload boundary's doing and independent of the preview.
Uploads ==
    {h \in {UploadedFile(t, d, r, o, 0) :
                t \in SUPPORTED_IMAGE_TYPES, d \in ByteStrings,
                r \in BOOLEAN, o \in BOOLEAN} :
        h.decodable => Len(h.data) > 0}

Sessions ==
    [upload : {None} \cup Uploads, text : Instructions, clicked : BOOLEAN]

NoSession == [upload |-> None, text |-> "", clicked |-> FALSE]

\* The handles an importer can pass to process_uploaded_image.
Handles ==
    {h \in {UploadedFile(t, d, r, FALSE, p) :
                t \in SUPPORTED_IMAGE_TYPES, d \in ByteStrings,
                r \in BOOLEAN, p \in 0..MaxLen} :
        h.pos <= Len(h.data)}

\* The payloads an importer can pass to get_gemini_response.
Entries == {Entry(t, d) : t \in SUPPORTED_IMAGE_TYPES, d \in {<<0>>, <<1>>}}
Payloads == {None} \cup {List(s) : s \in SeqsUpTo(Entries, MaxPayload)}
Prompts == {NUTRITION_PROMPT, "Describe the image"}

NoCall == [fn |-> "none"]

Init ==
    /\ environ \in EnvValues
    /\ dotenv \in DotenvValues
    /\ \/ name = "__main__" /\ session \in Sessions
       \/ name = "main" /\ session = NoSession
    /\ pc = "load"
    /\ GOOGLE_API_KEY = Absent
    /\ api_key = Absent
    /\ page = FALSE
    /\ uploaded_file = None
    /\ user_input = ""
    /\ submit = FALSE
    /\ image_data = None
    /\ response = ""
    /\ display = <<>>
    /\ invoked = NoCall
    /\ ingestCalls = 0
    /\ clientCalls = 0
    /\ genCalls = 0

(* --------------------------- module level ------------------------------ *)

\* load_dotenv(): an entry of the .env file is put into the environment
\* unless the variable is already set there.
load_dotenv(env, file) == IF env = Absent THEN file ELSE env

\* A faulty variant of KeyMissing: the check of line 77 never fires.
KeyMissingNever(key) == FALSE

\* `if not GOOGLE_API_KEY` of line 77: unset or empty.
KeyMissing(key) == ~TruthyStr(key)

\* Lines 75-80 and 252-253: the credential is loaded and checked, genai is
\* configured, and main() runs when the file is the script.
LoadModule ==
    /\ pc = "load"
    /\ environ' = load_dotenv(environ, dotenv)
    /\ GOOGLE_API_KEY' = environ'
    /\ IF KeyMissing(GOOGLE_API_KEY')
       THEN /\ pc' = "aborted"
            /\ api_key' = api_key
       ELSE /\ api_key' = GOOGLE_API_KEY'
            /\ pc' = IF name = "__main__" THEN "main" ELSE "imported"
    /\ UNCHANGED <<dotenv, name, session, page, locals, display, invoked, counters>>

(* -------------------------------- main --------------------------------- *)

\* st.image of lines 214-218.
PreviewImage == Shown("image", "Your Food Image", "")

\* st.error of line 220; PIL raises UnidentifiedImageError.
PreviewError == Shown("error", "Error displaying image", "UnidentifiedImageError")

\* st.warning of line 250.
UploadWarning == Shown("warning", "Please upload an image first.", "")

\* Lines 195-209: the page is set up and the uploader returns the upload.
MainSetup ==
    /\ pc = "main"
    /\ page' = TRUE
    /\ uploaded_file' = session.upload
    /\ pc' = "preview"
    /\ UNCHANGED <<config, user_input, submit, image_data, response, display,
                   invoked, counters>>

\* A faulty variant of PreviewFailed: the `return` of line 221 is missing.
PreviewFailedContinues == "widgets"

\* Where main goes after the handler of lines 219-221.
PreviewFailed == "done"

\* Lines 211-221: the preview of the upload.  Image.open reads from the
\* handle and leaves its position somewhere past the start.
MainPreview ==
    /\ pc = "preview"
    /\ IF Truthy(uploaded_file)
       THEN IF uploaded_file.decodable
            THEN /\ \E p \in 1..Len(uploaded_file.data) :
                        uploaded_file' = [uploaded_file EXCEPT !.pos = p]
                 /\ display' = Append(display, PreviewImage)
                 /\ pc' = "widgets"
            ELSE /\ display' = Append(display, PreviewError)
                 /\ pc' = PreviewFailed
                 /\ UNCHANGED uploaded_file
       ELSE /\ pc' = "widgets"
            /\ UNCHANGED <<uploaded_file, display>>
    /\ UNCHANGED <<config, page, user_input, submit, image_data, response,
                   invoked, counters>>

\* Lines 223-234: the text area and the button return what the user set.
MainWidgets ==
    /\ pc = "widgets"
    /\ user_input' = session.text
    /\ submit' = session.clicked
    /\ pc' = "dispatch"
    /\ UNCHANGED <<config, page, uploaded_file, image_data, response, display,
                   invoked, counters>>

\* A faulty variant of Branch: the upload alone decides.
BranchIgnoresSubmit(s, f) == IF Truthy(f) THEN "analyze" ELSE "none"

\* A faulty variant of Branch: the submit flag alone decides.
BranchIgnoresUpload(s, f) == IF s THEN "analyze" ELSE "none"

\* The if / elif of lines 237 and 249.
Branch(s, f) ==
    IF s /\ Truthy(f) THEN "analyze"
    ELSE IF s THEN "warn"
    ELSE "none"

\* Lines 237-238 and 249-250.
MainDispatch ==
    /\ pc = "dispatch"
    /\ LET branch == Branch(submit, uploaded_file)
       IN  /\ pc' = IF branch = "analyze" THEN "ingest" ELSE "done"
           /\ display' = IF branch = "warn"
                          THEN Append(display, UploadWarning)
                          ELSE display
    /\ UNCHANGED <<config, page, locals, invoked, counters>>

\* `except Exception` of line 247.
MainCatches(exc) == IsSubclass(exc, "Exception")

\* What main does with an exception that reaches line 247.
Failed(exc) == Shown("error", "Analysis failed", exc)

\* Lines 240-241 (and 247-248): the upload is ingested.
MainIngest ==
    /\ pc = "ingest"
    /\ LET r == process_uploaded_image(uploaded_file)
       IN  /\ invoked' = [fn |-> "process_uploaded_image", args |-> <<uploaded_file>>,
                           outcome |-> NoExc, result |-> r]
           /\ IF r.kind = "raise"
              THEN /\ image_data' = image_data
                   /\ display' = IF MainCatches(r.exc)
                                  THEN (display \o r.errors) \o <<Failed(r.exc)>>
                                  ELSE display \o r.errors
                   /\ pc' = IF MainCatches(r.exc) THEN "done" ELSE "crashed"
              ELSE /\ image_data' = r.value
                   /\ display' = display \o r.errors
                   /\ pc' = IF Truthy(r.value) THEN "analyze" ELSE "done"
    /\ ingestCalls' = ingestCalls + 1
    /\ UNCHANGED <<config, page, uploaded_file, user_input, submit, response,
                   clientCalls, genCalls>>

\* Lines 242-246 (and 247-248): the model is asked and its text shown.
MainAnalyze ==
    /\ pc = "analyze"
    /\ \E o \in RemoteOutcomes :
         LET r == get_gemini_response(user_input, image_data, NUTRITION_PROMPT, o)
         IN  /\ invoked' = [fn |-> "get_gemini_response",
                             args |-> <<user_input, image_data, NUTRITION_PROMPT>>,
                             outcome |-> o, result |-> r]
             /\ genCalls' = genCalls + Len(r.remote)
             /\ IF r.kind = "raise"
                THEN /\ response' = response
                     /\ display' = IF MainCatches(r.exc)
                                    THEN (display \o r.errors) \o <<Failed(r.exc)>>
                                    ELSE display \o r.errors
                     /\ pc' = IF MainCatches(r.exc) THEN "done" ELSE "crashed"
                ELSE /\ response' = r.value
                     /\ display' = (display \o r.errors)
                                        \o <<Shown("result", "Analysis Results", r.value)>>
                     /\ pc' = "done"
    /\ clientCalls' = clientCalls + 1
    /\ UNCHANGED <<config, page, uploaded_file, user_input, submit, image_data,
                   ingestCalls>>

(* ------------------------ calls by an importer ------------------------- *)

\* A module that imported main.py (a test, a REPL) calls one of its two
\* functions.  The functions keep nothing between calls, so a behaviour holds
\* one such call.

\* process_uploaded_image called with None or a handle.
CallProcessUploadedImage ==
    /\ pc = "imported"
    /\ \E f \in {None} \cup Handles :
         invoked' = [fn |-> "process_uploaded_image", args |-> <<f>>,
                     outcome |-> NoExc, result |-> process_uploaded_image(f)]
    /\ pc' = "returned"
    /\ UNCHANGED <<config, page, locals, display, counters>>

\* get_gemini_response called with any payload, under any remote outcome.
CallGetGeminiResponse ==
    /\ pc = "imported"
    /\ \E u \in Instructions, d \in Payloads, p \in Prompts, o \in RemoteOutcomes :
         invoked' = [fn |-> "get_gemini_response", args |-> <<u, d, p>>,
                     outcome |-> o, result |-> get_gemini_response(u, d, p, o)]
    /\ pc' = "returned"
    /\ UNCHANGED <<config, page, locals, display, counters>>

Next ==
    \/ LoadModule
    \/ MainSetup
    \/ MainPreview
    \/ MainWidgets
    \/ MainDispatch
    \/ MainIngest
    \/ MainAnalyze
    \/ CallProcessUploadedImage
    \/ CallGetGeminiResponse

Spec == Init /\ [][Next]_vars

(* ------------------------------ claims --------------------------------- *)

AsScript == name = "__main__"
IngestCall == invoked.fn = "process_uploaded_image"
ClientCall == invoked.fn = "get_gemini_response"
ShownKinds == {display[i].kind : i \in 1..Len(display)}
NothingCalled ==
    invoked = NoCall /\ ingestCalls = 0 /\ clientCalls = 0 /\ genCalls = 0

\* C1: when submit is pressed and there is no upload, main calls neither
\* process_uploaded_image nor get_gemini_response (nor generate_content) at
\* any point, and once it has returned the page shows the warning and
\* nothing else.
C1_SubmitWithoutUploadWarns ==
    (AsScript /\ session.clicked /\ session.upload = None) =>
        /\ NothingCalled
        /\ pc # "crashed"
        /\ pc = "done" => display = <<UploadWarning>>

C1_Witness ==
    AsScript /\ session.clicked /\ session.upload = None /\ pc = "done"

C3_IngestRoundTrip ==
    (/\ IngestCall
     /\ invoked.args[1].kind = "UploadedFile"
     /\ invoked.args[1].readable
     /\ Len(invoked.args[1].data) > 0) =>
        /\ invoked.result.kind = "return"
        /\ invoked.result.value.kind = "list"
        /\ Len(invoked.result.value.items) = 1
        /\ invoked.result.value.items[1].mime_type = invoked.args[1].type
        /\ invoked.result.value.items[1].data = invoked.args[1].data
        /\ invoked.result.errors = <<>>

C3_Witness ==
    /\ IngestCall
    /\ invoked.args[1].kind = "UploadedFile"
    /\ invoked.args[1].readable
    /\ Len(invoked.args[1].data) > 1
    /\ invoked.args[1].pos > 0
    /\ invoked.result.kind = "return"

\* C4: process_uploaded_image called with None raises FileNotFoundError; it
\* returns nothing.
C4_AbsentUploadRaises ==
    (IngestCall /\ invoked.args[1] = None) =>
        /\ invoked.result.kind = "raise"
        /\ invoked.result.exc = "FileNotFoundError"

C4_Witness ==
    IngestCall /\ invoked.args[1] = None /\ invoked.result.kind = "raise"

\* C5: every argument get_gemini_response passes to generate_content is the
\* three-element list of its user_input, the first entry of its payload and
\* its prompt, in this order; when main made the call, that is the user's
\* text, the upload's {mime_type, data} and NUTRITION_PROMPT.
C5_RequestList ==
    ClientCall =>
        \A i \in 1..Len(invoked.result.remote) :
            /\ invoked.result.remote[i] =
                   <<invoked.args[1], invoked.args[2].items[1], invoked.args[3]>>
            /\ AsScript =>
                   invoked.result.remote[i] =
                       <<session.text,
                         Entry(session.upload.type, session.upload.data),
                         NUTRITION_PROMPT>>

C5_Witness ==
    /\ ClientCall
    /\ AsScript
    /\ Len(invoked.result.remote) = 1
    /\ session.text = "focus on protein"
    /\ Len(session.upload.data) > 1

C7_OneCallPerSubmit ==
    /\ clientCalls <= 1
    /\ genCalls <= 1
    /\ ClientCall => Len(invoked.result.remote) <= 1
    /\ (/\ AsScript
        /\ pc = "done"
        /\ session.clicked
        /\ session.upload # None
        /\ session.upload.decodable
        /\ session.upload.readable) =>
            /\ clientCalls = 1
            /\ ClientCall
            /\ invoked.outcome.stage # "construct" => genCalls = 1

C7_Witness ==
    /\ AsScript
    /\ pc = "done"
    /\ clientCalls = 1
    /\ genCalls = 1
    /\ invoked.outcome.stage = "generate"
    /\ invoked.result.value = FALLBACK

\* C8: process_uploaded_image, given a handle whose bytes cannot be read,
\* reports one error and returns None instead of raising; main then returns
\* without calling get_gemini_response and without showing a result.
C8_UnreadableUploadYieldsNothing ==
    /\ (IngestCall /\ invoked.args[1] # None /\ ~invoked.args[1].readable) =>
            /\ invoked.result.kind = "return"
            /\ invoked.result.value = None
            /\ Len(invoked.result.errors) = 1
            /\ invoked.result.errors[1].kind = "error"
    /\ (AsScript /\ ingestCalls > 0 /\ ~uploaded_file.readable) =>
            /\ pc = "done"
            /\ image_data = None
            /\ clientCalls = 0
            /\ genCalls = 0
            /\ "result" \notin ShownKinds
            /\ display = <<PreviewImage,
                           Shown("error", "Error processing image", "ValueError")>>

C8_Witness ==
    AsScript /\ pc = "done" /\ ingestCalls = 1 /\ ~uploaded_file.readable

\* C9: when the upload cannot be rendered in the preview, main shows the
\* error and returns at once: past the preview it is nowhere but at its
\* end, and it has called neither function, whether or not submit was
\* pressed.
C9_PreviewFailureHalts ==
    (/\ AsScript
     /\ session.upload # None
     /\ ~session.upload.decodable
     /\ pc \notin {"load", "aborted", "main", "preview"}) =>
        /\ pc = "done"
        /\ display = <<PreviewError>>
        /\ NothingCalled

C9_Witness ==
    /\ AsScript
    /\ session.upload # None
    /\ ~session.upload.decodable
    /\ session.clicked
    /\ pc = "done"

\* C10 as stated: when main returns with an upload present and submit not
\* pressed, the page shows the preview image and nothing else, and neither
\* function was called.
C10_PreviewOnly ==
    (AsScript /\ pc = "done" /\ session.upload # None /\ ~session.clicked) =>
        /\ display = <<PreviewImage>>
        /\ NothingCalled

\* C10 amended: with an upload present and submit not pressed, main calls
\* neither function at any point and shows neither a result nor a warning;
\* when it returns the page shows the preview image alone if the image can
\* be rendered, and the preview error alone if it cannot.
C10_PreviewOrItsError ==
    (AsScript /\ session.upload # None /\ ~session.clicked) =>
        /\ NothingCalled
        /\ "result" \notin ShownKinds
        /\ "warning" \notin ShownKinds
        /\ pc = "done" =>
               display = IF session.upload.decodable
                         THEN <<PreviewImage>>
                         ELSE <<PreviewError>>

C10_Witness ==
    /\ AsScript
    /\ pc = "done"
    /\ session.upload # None
    /\ session.upload.decodable
    /\ ~session.clicked
    /\ display = <<PreviewImage>>

====
